---------------------------- MODULE Spec2Model ----------------------------
(***************************************************************************)
(* The nested-statement brainfuck interpreter of src/src/lib.rs: lexer,    *)
(* parser, peephole optimizer, strict tape machine and executor, and the   *)
(* pipeline Interpreter::run / Interpreter::run_with_optimization that     *)
(* chains them; and the tape machine of src/src/brainfuck.rs, whose flags  *)
(* choose between wrapping and saturating moves.                           *)
(***************************************************************************)
EXTENDS Integers, Sequences, FiniteSets, TLC

(***************************************************************************)
(* Bounds of the model.                                                    *)
(***************************************************************************)
\* longest program source, in bytes
MaxSrc == 4
\* largest tape size given to BrainfuckMachine::new
MaxTape == 2
\* longest character stream the terminal supplies
MaxInput == 1
\* largest optimizer iteration budget (the -O argument)
MaxIter == 2

\* largest shift given to move_left / move_right of the policy machine,
\* besides the largest usize
MaxShift == 5
\* most calls made on one policy machine
MaxCalls == 3
\* add and substract are given the bytes up to this one and as many of the
\* largest bytes
MaxValue == 1
\* most statements a run of a flat sequence is followed for
MaxFuel == 64

\* usize arithmetic wraps modulo this where overflow is not checked: usize is
\* as wide as a pointer of the target, and the narrowest target has 16 bits
UsizeModulus == 65536

\* u8 arithmetic wraps modulo this
Byte == 256

\* the eight bytes Lexer::tokenize recognizes
Alphabet == {"+", "-", "<", ">", ",", ".", "[", "]"}

\* bytes the terminal can supply to get_char
InputBytes == {1}

Min(a, b) == IF a <= b THEN a ELSE b

SeqsUpTo(S, n) == UNION {[1..k -> S] : k \in 0..n}

Sources == SeqsUpTo(Alphabet, MaxSrc)

InputStreams == SeqsUpTo(InputBytes, MaxInput)

\* the bytes of a source file: the eight symbols and a byte that is none of them
SourceBytes == Alphabet \cup {"x"}

\* source files with bytes that are no brainfuck symbols among the symbols
CommentedSources == SeqsUpTo(SourceBytes, MaxSrc)

VARIABLES
    src,            \* the bytes of the source file (the Lexer's reader)
    machine,        \* Interpreter.machine: [size, index, tape]
    stdin,          \* characters the terminal has not yet supplied
    stdin0,         \* the whole character stream of this run
    stdout,         \* characters printed so far
    pc,             \* where the pipeline is: start, optimize, run_code, exec, done, panic, error
    error,          \* message of the io::Error returned by run / run_with_optimization
    parsed,         \* result of Parser::parse
    statements,     \* Optimizer.statements, then the argument of run_code
    previous,       \* the local `previous` of Optimizer::optimize: <<>> before the first pass
    max_iterations, \* argument of run_with_optimization
    iterations,     \* passes counted by the bounded for loop of Optimizer::optimize
    optimized,      \* TRUE when the run went through run_with_optimization
    ip,             \* position of run_code's for loop in `statements`
    reader,         \* Lexer.reader: the bytes of the source not yet read
    yielded,        \* the items the lexer's iterator has yielded so far
    lexer_call,     \* the last call made on the lexer, with the values it returned
    policy_machine, \* the BrainfuckMachine of brainfuck.rs, with its wrap flags
    policy_call,    \* the last call made on that machine, with its argument and the
                    \* cursor and the cell under it before the call
    overflow_checks \* TRUE in a build that panics on integer overflow, FALSE where it wraps

lexer_vars == <<reader, yielded, lexer_call>>

policy_vars == <<policy_machine, policy_call, overflow_checks>>

pipeline_vars == <<src, machine, stdin, stdin0, stdout, pc, error, parsed, statements,
                   previous, max_iterations, iterations, optimized, ip>>

vars == <<pipeline_vars, lexer_vars, policy_vars>>

(***************************************************************************)
(* enum Statement: every statement is a record of the same shape.          *)
(***************************************************************************)
MoveLeft(n) == [kind |-> "MoveLeft", value |-> n, body |-> <<>>]
MoveRight(n) == [kind |-> "MoveRight", value |-> n, body |-> <<>>]
Add(n) == [kind |-> "Add", value |-> n, body |-> <<>>]
PutChar == [kind |-> "PutChar", value |-> 0, body |-> <<>>]
ReadChar == [kind |-> "ReadChar", value |-> 0, body |-> <<>>]
new_loop(stmts) == [kind |-> "Loop", value |-> 0, body |-> stmts]

is_equal_type(a, b) == a.kind = b.kind

is_move(a) == a.kind \in {"MoveLeft", "MoveRight"}

(***************************************************************************)
(* Lexer and Parser.                                                       *)
(***************************************************************************)
\* tokenize as it would be if the arm of '+' were the arm of every other byte
tokenize_other_as_increment(input) ==
    CASE input = "-" -> "Decrement"
      [] input = "<" -> "ShiftLeft"
      [] input = ">" -> "ShiftRight"
      [] input = "," -> "ReadChar"
      [] input = "." -> "PutChar"
      [] input = "[" -> "StartLoop"
      [] input = "]" -> "EndLoop"
      [] OTHER -> "Increment"

tokenize(input) ==
    CASE input = "+" -> "Increment"
      [] input = "-" -> "Decrement"
      [] input = "<" -> "ShiftLeft"
      [] input = ">" -> "ShiftRight"
      [] input = "," -> "ReadChar"
      [] input = "." -> "PutChar"
      [] input = "[" -> "StartLoop"
      [] input = "]" -> "EndLoop"
      [] OTHER -> "None"

\* eof as it would be if it reported the end while one byte is left
eof_one_byte_early(r) == Len(r) <= 1

\* Lexer::eof: fill_buf looks at the reader `r` and consumes nothing
eof(r) == r = <<>>

\* Lexer::next_token on the reader `r`: what it returns and the reader it leaves
next_token(r) ==
    IF r = <<>>
    THEN [ret |-> "None", reader |-> r]
    ELSE [ret |-> tokenize(Head(r)), reader |-> Tail(r)]

\* LexerIter::next and LexerRefIter::next: the Option<Option<Token>> it returns,
\* as a sequence of 0 or 1, and the reader it leaves
next(r) ==
    IF eof(r)
    THEN [ret |-> <<>>, reader |-> r]
    ELSE LET t == next_token(r) IN [ret |-> <<t.ret>>, reader |-> t.reader]

\* unit_statement as it would be with the two shift arms exchanged
unit_statement_shifts_exchanged(token) ==
    CASE token = "Increment" -> Add(1)
      [] token = "Decrement" -> Add(Byte - 1)
      [] token = "ShiftLeft" -> MoveRight(1)
      [] token = "ShiftRight" -> MoveLeft(1)
      [] token = "PutChar" -> PutChar
      [] token = "ReadChar" -> ReadChar

\* the statement pushed for a token that is neither StartLoop nor EndLoop
unit_statement(token) ==
    CASE token = "Increment" -> Add(1)
      [] token = "Decrement" -> Add(Byte - 1)
      [] token = "ShiftLeft" -> MoveLeft(1)
      [] token = "ShiftRight" -> MoveRight(1)
      [] token = "PutChar" -> PutChar
      [] token = "ReadChar" -> ReadChar

ErrNoClose == "Error: '[' found with no matching ']'."
ErrNoOpen == "Error: ']' found with no matching '['."

\* parse_loop from byte `pos` of `source` with `stmts` already collected:
\* [err, opt, pos], opt being the Option<Statement> as a sequence of 0 or 1
\* parse_loop as it would be if the EndLoop arm returned the loop whatever its body
RECURSIVE parse_loop_keeps_empty(_, _, _)
parse_loop_keeps_empty(source, pos, stmts) ==
    IF pos > Len(source)
    THEN [err |-> ErrNoClose, opt |-> <<>>, pos |-> pos]
    ELSE LET token == tokenize(source[pos]) IN
         CASE token = "None" -> parse_loop_keeps_empty(source, pos + 1, stmts)
           [] token = "StartLoop" ->
                LET inner == parse_loop_keeps_empty(source, pos + 1, <<>>) IN
                IF inner.err # ""
                THEN inner
                ELSE parse_loop_keeps_empty(source, inner.pos, stmts \o inner.opt)
           [] token = "EndLoop" ->
                [err |-> "", opt |-> <<new_loop(stmts)>>, pos |-> pos + 1]
           [] OTHER ->
                parse_loop_keeps_empty(source, pos + 1, Append(stmts, unit_statement(token)))

RECURSIVE parse_loop(_, _, _)
parse_loop(source, pos, stmts) ==
    IF pos > Len(source)
    THEN [err |-> ErrNoClose, opt |-> <<>>, pos |-> pos]
    ELSE LET token == tokenize(source[pos]) IN
         CASE token = "None" -> parse_loop(source, pos + 1, stmts)
           [] token = "StartLoop" ->
                LET inner == parse_loop(source, pos + 1, <<>>) IN
                IF inner.err # ""
                THEN inner
                ELSE parse_loop(source, inner.pos, stmts \o inner.opt)
           [] token = "EndLoop" ->
                [err |-> "",
                 opt |-> IF stmts = <<>> THEN <<>> ELSE <<new_loop(stmts)>>,
                 pos |-> pos + 1]
           [] OTHER -> parse_loop(source, pos + 1, Append(stmts, unit_statement(token)))

\* parse as it would be if the failure of parse_loop were dropped and the
\* statements collected so far returned
RECURSIVE parse_from_drops_loop_error(_, _, _)
parse_from_drops_loop_error(source, pos, result) ==
    IF pos > Len(source)
    THEN [err |-> "", stmts |-> result]
    ELSE LET token == tokenize(source[pos]) IN
         CASE token = "None" -> parse_from_drops_loop_error(source, pos + 1, result)
           [] token = "StartLoop" ->
                LET inner == parse_loop(source, pos + 1, <<>>) IN
                IF inner.err # ""
                THEN [err |-> "", stmts |-> result]
                ELSE parse_from_drops_loop_error(source, inner.pos, result \o inner.opt)
           [] token = "EndLoop" -> [err |-> ErrNoOpen, stmts |-> <<>>]
           [] OTHER ->
                parse_from_drops_loop_error(source, pos + 1,
                                            Append(result, unit_statement(token)))

\* parse as it would be if a ']' at top level were skipped
RECURSIVE parse_from_skips_stray_close(_, _, _)
parse_from_skips_stray_close(source, pos, result) ==
    IF pos > Len(source)
    THEN [err |-> "", stmts |-> result]
    ELSE LET token == tokenize(source[pos]) IN
         CASE token = "None" -> parse_from_skips_stray_close(source, pos + 1, result)
           [] token = "StartLoop" ->
                LET inner == parse_loop(source, pos + 1, <<>>) IN
                IF inner.err # ""
                THEN [err |-> inner.err, stmts |-> <<>>]
                ELSE parse_from_skips_stray_close(source, inner.pos, result \o inner.opt)
           [] token = "EndLoop" -> parse_from_skips_stray_close(source, pos + 1, result)
           [] OTHER ->
                parse_from_skips_stray_close(source, pos + 1,
                                             Append(result, unit_statement(token)))

\* Parser::parse from byte `pos` with `result` already collected: [err, stmts]
RECURSIVE parse_from(_, _, _)
parse_from(source, pos, result) ==
    IF pos > Len(source)
    THEN [err |-> "", stmts |-> result]
    ELSE LET token == tokenize(source[pos]) IN
         CASE token = "None" -> parse_from(source, pos + 1, result)
           [] token = "StartLoop" ->
                LET inner == parse_loop(source, pos + 1, <<>>) IN
                IF inner.err # ""
                THEN [err |-> inner.err, stmts |-> <<>>]
                ELSE parse_from(source, inner.pos, result \o inner.opt)
           [] token = "EndLoop" -> [err |-> ErrNoOpen, stmts |-> <<>>]
           [] OTHER -> parse_from(source, pos + 1, Append(result, unit_statement(token)))

parse(source) == parse_from(source, 1, <<>>)

(***************************************************************************)
(* Optimizer.                                                              *)
(***************************************************************************)
\* the Option<Statement> as a sequence of 0 or 1; the caller resets the count
generate_optimized_stmt(stmt_type, value) ==
    IF value = 0
    THEN <<>>
    ELSE CASE stmt_type.kind = "Add" -> <<Add(value % Byte)>>
           [] stmt_type.kind = "MoveLeft" -> <<MoveLeft(value)>>
           [] stmt_type.kind = "MoveRight" -> <<MoveRight(value)>>
           [] OTHER -> <<>>

\* must_flush as it would be if an I/O statement were pushed without first
\* emitting the pending statement
must_flush_not_before_io(statement, last_statement) ==
    /\ ~is_equal_type(statement, last_statement)
    /\ (~is_move(statement) \/ ~is_move(last_statement))
    /\ statement.kind \notin {"PutChar", "ReadChar"}

\* the condition under which the pending statement is emitted before `statement`
must_flush(statement, last_statement) ==
    /\ ~is_equal_type(statement, last_statement)
    /\ (~is_move(statement) \/ ~is_move(last_statement))

\* the scan state before the first statement
scan_start == [result |-> <<>>, stmt_count |-> 0, last_statement |-> ReadChar]

\* the trailing generate_optimized_stmt after the for loop
scan_finish(acc) == acc.result \o generate_optimized_stmt(acc.last_statement, acc.stmt_count)

\* move_arm as it would be without `cloned = last_statement.clone()`: the
\* pending direction is lost when the opposite move does not outweigh it
move_arm_direction_lost(statement, last_statement, stmt_count) ==
    LET value == statement.value IN
    IF last_statement.kind = statement.kind
    THEN [stmt_count |-> stmt_count + value, cloned |-> statement]
    ELSE IF is_move(last_statement)
    THEN IF stmt_count < value
         THEN [stmt_count |-> value - stmt_count, cloned |-> statement]
         ELSE [stmt_count |-> stmt_count - value, cloned |-> statement]
    ELSE [stmt_count |-> value, cloned |-> statement]

\* a move of `value` in direction `statement.kind` met while `stmt_count` is
\* pending for `last_statement`: the new [stmt_count, cloned]
move_arm(statement, last_statement, stmt_count) ==
    LET value == statement.value IN
    IF last_statement.kind = statement.kind
    THEN [stmt_count |-> stmt_count + value, cloned |-> statement]
    ELSE IF is_move(last_statement)
    THEN IF stmt_count < value
         THEN [stmt_count |-> value - stmt_count, cloned |-> statement]
         ELSE [stmt_count |-> stmt_count - value, cloned |-> last_statement]
    ELSE [stmt_count |-> value, cloned |-> statement]

\* add_arm as it would be with a plain usize sum in place of wrapping_add
add_arm_no_wrap(statement, last_statement, stmt_count) ==
    IF last_statement.kind = "Add"
    THEN [stmt_count |-> statement.value + stmt_count, cloned |-> statement]
    ELSE [stmt_count |-> statement.value, cloned |-> statement]

\* an Add of statement.value met while `stmt_count` is pending
add_arm(statement, last_statement, stmt_count) ==
    IF last_statement.kind = "Add"
    THEN [stmt_count |-> (statement.value + (stmt_count % Byte)) % Byte, cloned |-> statement]
    ELSE [stmt_count |-> statement.value, cloned |-> statement]

RECURSIVE optimize_loop(_)
RECURSIVE optimize_loop_scan(_, _, _)

\* one iteration of the for loop of optimize_loop
optimize_loop_step(acc, statement) ==
    LET flush == must_flush(statement, acc.last_statement)
        result == IF flush
                  THEN acc.result \o generate_optimized_stmt(acc.last_statement, acc.stmt_count)
                  ELSE acc.result
        stmt_count == IF flush THEN 0 ELSE acc.stmt_count
    IN  CASE is_move(statement) ->
               LET arm == move_arm(statement, acc.last_statement, stmt_count) IN
               [result |-> result, stmt_count |-> arm.stmt_count, last_statement |-> arm.cloned]
          [] statement.kind = "Add" ->
               LET arm == add_arm(statement, acc.last_statement, stmt_count) IN
               [result |-> result, stmt_count |-> arm.stmt_count, last_statement |-> arm.cloned]
          [] statement.kind \in {"PutChar", "ReadChar"} ->
               [result |-> Append(result, statement), stmt_count |-> stmt_count,
                last_statement |-> statement]
          [] statement.kind = "Loop" ->
               [result |-> result \o optimize_loop(statement), stmt_count |-> stmt_count,
                last_statement |-> statement]

optimize_loop_scan(stmts, i, acc) ==
    IF i > Len(stmts)
    THEN acc
    ELSE optimize_loop_scan(stmts, i + 1, optimize_loop_step(acc, stmts[i]))

\* optimize_loop as it would be without the generate_optimized_stmt that
\* follows the for loop
optimize_loop_without_trailing_flush(loop_stmt) ==
    <<new_loop(optimize_loop_scan(loop_stmt.body, 1, scan_start).result)>>

\* Option<Statement> as a sequence of 0 or 1
optimize_loop(loop_stmt) ==
    <<new_loop(scan_finish(optimize_loop_scan(loop_stmt.body, 1, scan_start)))>>

\* one iteration of the for loop of optimize_once
optimize_once_step(acc, statement) ==
    LET flush == must_flush(statement, acc.last_statement)
        result == IF flush
                  THEN acc.result \o generate_optimized_stmt(acc.last_statement, acc.stmt_count)
                  ELSE acc.result
        stmt_count == IF flush THEN 0 ELSE acc.stmt_count
    IN  CASE is_move(statement) ->
               LET arm == move_arm(statement, acc.last_statement, stmt_count) IN
               [result |-> result, stmt_count |-> arm.stmt_count, last_statement |-> arm.cloned]
          [] statement.kind = "Add" ->
               LET arm == add_arm(statement, acc.last_statement, stmt_count) IN
               [result |-> result, stmt_count |-> arm.stmt_count, last_statement |-> arm.cloned]
          [] statement.kind \in {"PutChar", "ReadChar"} ->
               [result |-> Append(result, statement), stmt_count |-> stmt_count,
                last_statement |-> statement]
          [] statement.kind = "Loop" ->
               [result |-> result \o optimize_loop(statement), stmt_count |-> stmt_count,
                last_statement |-> statement]

RECURSIVE optimize_once_scan(_, _, _)
optimize_once_scan(stmts, i, acc) ==
    IF i > Len(stmts)
    THEN acc
    ELSE optimize_once_scan(stmts, i + 1, optimize_once_step(acc, stmts[i]))

\* the new value of Optimizer.statements
optimize_once(stmts) == scan_finish(optimize_once_scan(stmts, 1, scan_start))

\* pass_unchanged as it would be with the comparison inverted
pass_unchanged_inverted(new_statements, previous_statements) ==
    new_statements # previous_statements

\* pass_unchanged as it would be if the pass's output were compared with itself
pass_unchanged_self(new_statements, previous_statements) ==
    new_statements = new_statements

\* the test `self.statements == previous` that ends Optimizer::optimize
pass_unchanged(new_statements, previous_statements) == new_statements = previous_statements

\* budget_spent as it would be with the range 0..=max_iterations
budget_spent_inclusive(passes, budget) == passes > budget

\* whether the for loop of the bounded branch has used up its range
budget_spent(passes, budget) == passes >= budget

\* Optimizer::optimize as a whole, after `passes` passes of the loop
RECURSIVE optimize_from(_, _, _)
optimize_from(stmts, budget, passes) ==
    LET new_statements == optimize_once(stmts) IN
    IF pass_unchanged(new_statements, stmts)
    THEN new_statements
    ELSE IF budget # 0 /\ budget_spent(passes + 1, budget)
    THEN new_statements
    ELSE optimize_from(new_statements, budget, passes + 1)

optimize(stmts, budget) == optimize_from(stmts, budget, 0)

(***************************************************************************)
(* BrainfuckMachine (the strict machine of lib.rs).  The tape is a         *)
(* function on 0..size-1.  An operation that panics has a *_panics         *)
(* predicate and its result is used only when that predicate is false.     *)
(***************************************************************************)
new(size) == [size |-> size, index |-> 0, tape |-> [i \in 0..(size - 1) |-> 0]]

\* tape[index] panics when the index is not a position of the Vec
index_panics(m) == m.index \notin DOMAIN m.tape

move_left_panics(m, shift) == shift > m.index

move_left(m, shift) == [m EXCEPT !.index = m.index - shift]

move_right_panics(m, shift) == shift > m.size - m.index

move_right(m, shift) == [m EXCEPT !.index = m.index + shift]

add(m, value) == [m EXCEPT !.tape[m.index] = (m.tape[m.index] + value) % Byte]

substract(m, value) == [m EXCEPT !.tape[m.index] = (m.tape[m.index] - value) % Byte]

read_char(m, input) == [m EXCEPT !.tape[m.index] = input % Byte]

\* put_char as it would be if it returned the first cell of the tape
put_char_of_first_cell(m) == m.tape[0]

put_char(m) == m.tape[m.index]

check_loop(m) == m.tape[m.index] # 0

(***************************************************************************)
(* Executor.  A world is the machine with the terminal:                    *)
(* [machine, stdin, stdout, panicked].                                     *)
(***************************************************************************)
panic(w) == [w EXCEPT !.panicked = TRUE]

\* get_char: read_exact(...).unwrap() panics when no character is left
get_char_panics(w) == w.stdin = <<>>

\* run_statement as it would be if get_char gave the character 0 when no
\* character is left
run_statement_zero_at_end_of_input(w, statement) ==
    LET m == w.machine IN
    CASE statement.kind = "MoveLeft" ->
           IF move_left_panics(m, statement.value)
           THEN panic(w)
           ELSE [w EXCEPT !.machine = move_left(m, statement.value)]
      [] statement.kind = "MoveRight" ->
           IF move_right_panics(m, statement.value)
           THEN panic(w)
           ELSE [w EXCEPT !.machine = move_right(m, statement.value)]
      [] statement.kind = "Add" ->
           IF index_panics(m)
           THEN panic(w)
           ELSE [w EXCEPT !.machine = add(m, statement.value)]
      [] statement.kind = "ReadChar" ->
           IF index_panics(m)
           THEN panic(w)
           ELSE IF get_char_panics(w)
           THEN [w EXCEPT !.machine = read_char(m, 0)]
           ELSE [w EXCEPT !.machine = read_char(m, Head(w.stdin)),
                          !.stdin = Tail(w.stdin)]
      [] statement.kind = "PutChar" ->
           IF index_panics(m)
           THEN panic(w)
           ELSE [w EXCEPT !.stdout = Append(w.stdout, put_char(m))]

\* the arms of the match for the statements that are not loops
\* (the same in run_loop and in run_code)
run_statement(w, statement) ==
    LET m == w.machine IN
    CASE statement.kind = "MoveLeft" ->
           IF move_left_panics(m, statement.value)
           THEN panic(w)
           ELSE [w EXCEPT !.machine = move_left(m, statement.value)]
      [] statement.kind = "MoveRight" ->
           IF move_right_panics(m, statement.value)
           THEN panic(w)
           ELSE [w EXCEPT !.machine = move_right(m, statement.value)]
      [] statement.kind = "Add" ->
           IF index_panics(m)
           THEN panic(w)
           ELSE [w EXCEPT !.machine = add(m, statement.value)]
      [] statement.kind = "ReadChar" ->
           IF get_char_panics(w)
           THEN panic(w)
           ELSE IF index_panics(m)
           THEN panic([w EXCEPT !.stdin = Tail(w.stdin)])
           ELSE [w EXCEPT !.machine = read_char(m, Head(w.stdin)),
                          !.stdin = Tail(w.stdin)]
      [] statement.kind = "PutChar" ->
           IF index_panics(m)
           THEN panic(w)
           ELSE [w EXCEPT !.stdout = Append(w.stdout, put_char(m))]

\* run_loop on the statements of a loop body from position i on: the body
\* is walked once, and a nested loop is run by the recursive call
RECURSIVE run_loop_from(_, _, _)
run_loop_from(w, stmts, i) ==
    IF w.panicked \/ i > Len(stmts)
    THEN w
    ELSE LET statement == stmts[i]
             after == IF statement.kind = "Loop"
                      THEN run_loop_from(w, statement.body, 1)
                      ELSE run_statement(w, statement)
         IN  run_loop_from(after, stmts, i + 1)

\* run_loop as it would be if it walked the body a second time
run_loop_walks_body_twice(w, loop_stmt) ==
    run_loop_from(run_loop_from(w, loop_stmt.body, 1), loop_stmt.body, 1)

run_loop(w, loop_stmt) == run_loop_from(w, loop_stmt.body, 1)

\* one iteration of the for loop of run_code
run_code_step(w, statement) ==
    IF statement.kind = "Loop"
    THEN run_loop(w, statement)
    ELSE run_statement(w, statement)

\* run_code as a whole, from statement i on
RECURSIVE run_code_from(_, _, _)
run_code_from(w, stmts, i) ==
    IF w.panicked \/ i > Len(stmts)
    THEN w
    ELSE run_code_from(run_code_step(w, stmts[i]), stmts, i + 1)

run_code(w, stmts) == run_code_from(w, stmts, 1)

(***************************************************************************)
(* The BrainfuckMachine of src/src/brainfuck.rs, whose flags wrap_tape and *)
(* wrap_cells choose between wrapping and saturating.  The usize operators *)
(* + and - panic on overflow in a build with overflow checks and wrap in a *)
(* build without: `checks` tells which build it is.                        *)
(***************************************************************************)
\* a - b on usize: [panicked, value]
usize_sub(a, b, checks) ==
    IF a >= b
    THEN [panicked |-> FALSE, value |-> a - b]
    ELSE IF checks
         THEN [panicked |-> TRUE, value |-> 0]
         ELSE [panicked |-> FALSE, value |-> a - b + UsizeModulus]

\* a + b on usize: [panicked, value]
usize_add(a, b, checks) ==
    IF a + b < UsizeModulus
    THEN [panicked |-> FALSE, value |-> a + b]
    ELSE IF checks
         THEN [panicked |-> TRUE, value |-> 0]
         ELSE [panicked |-> FALSE, value |-> a + b - UsizeModulus]

saturating_sub(a, b) == IF a > b THEN a - b ELSE 0

saturating_add(a, b) == IF a + b < UsizeModulus THEN a + b ELSE UsizeModulus - 1

add_with_wrap(first, other, modulus, checks) ==
    LET negated == usize_sub(modulus, first, checks) IN
    IF negated.panicked
    THEN negated
    ELSE IF negated.value > other
         THEN usize_add(first, other, checks)
         ELSE usize_sub(other, negated.value, checks)

sub_with_wrap(first, other, modulus, checks) ==
    IF first < other
    THEN LET negated == usize_sub(modulus, other, checks) IN
         IF negated.panicked
         THEN negated
         ELSE usize_add(negated.value, first, checks)
    ELSE usize_sub(first, other, checks)

\* BrainfuckMachine::new(size, wrap_tape, wrap_cells)
policy_new(size, wrap_tape, wrap_cells) ==
    [size |-> size, index |-> 0, tape |-> [i \in 0..size-1 |-> 0],
     wrap_tape |-> wrap_tape, wrap_cells |-> wrap_cells]

\* the new index of move_left(shift) on the machine m: [panicked, value]
policy_move_left(m, shift, checks) ==
    IF m.wrap_tape
    THEN sub_with_wrap(m.index, shift, m.size, checks)
    ELSE [panicked |-> FALSE, value |-> saturating_sub(m.index, shift)]

\* move_right as it would be if the saturated index were capped at size
policy_move_right_clamps_at_size(m, shift, checks) ==
    IF m.wrap_tape
    THEN add_with_wrap(m.index, shift, m.size, checks)
    ELSE [panicked |-> FALSE, value |-> Min(saturating_add(m.index, shift), m.size)]

\* the new index of move_right(shift) on the machine m: [panicked, value]
policy_move_right(m, shift, checks) ==
    IF m.wrap_tape
    THEN add_with_wrap(m.index, shift, m.size, checks)
    ELSE LET last == usize_sub(m.size, 1, checks) IN
         IF last.panicked
         THEN last
         ELSE [panicked |-> FALSE,
               value |-> Min(saturating_add(m.index, shift), last.value)]

\* the cell under the cursor, 0 standing for none when the cursor is off the tape
current_cell(m) == IF index_panics(m) THEN 0 ELSE m.tape[m.index]

wrapping_add(a, b) == (a + b) % Byte

u8_saturating_add(a, b) == IF a + b > Byte - 1 THEN Byte - 1 ELSE a + b

wrapping_sub(a, b) == (a - b) % Byte

u8_saturating_sub(a, b) == IF a > b THEN a - b ELSE 0

\* add as it would be if the cell saturated whatever wrap_cells says
policy_add_always_saturates(m, value) ==
    [m EXCEPT !.tape[m.index] = u8_saturating_add(m.tape[m.index], value)]

\* BrainfuckMachine::add, on a machine whose cursor is on the tape
policy_add(m, value) ==
    LET current == m.tape[m.index] IN
    [m EXCEPT !.tape[m.index] = IF m.wrap_cells
                                THEN wrapping_add(current, value)
                                ELSE u8_saturating_add(current, value)]

\* substract as it would be if the cell wrapped whatever wrap_cells says
policy_substract_always_wraps(m, value) ==
    [m EXCEPT !.tape[m.index] = wrapping_sub(m.tape[m.index], value)]

\* BrainfuckMachine::substract, on a machine whose cursor is on the tape
policy_substract(m, value) ==
    LET current == m.tape[m.index] IN
    [m EXCEPT !.tape[m.index] = IF m.wrap_cells
                                THEN wrapping_sub(current, value)
                                ELSE u8_saturating_sub(current, value)]

\* read_char as it would be if it wrote the first cell of the tape
policy_read_char_into_first_cell(m, input) == [m EXCEPT !.tape[0] = input % Byte]

\* BrainfuckMachine::read_char, on a machine whose cursor is on the tape
policy_read_char(m, input) == [m EXCEPT !.tape[m.index] = input % Byte]

policy_put_char(m) == m.tape[m.index]

policy_check_loop(m) == m.tape[m.index] # 0

(***************************************************************************)
(* The Parser of src/src/brainfuck.rs, whose result is a flat sequence of  *)
(* statements: a run of one countable token is one statement, and the end  *)
(* of a loop is a JumpIf to the position where the loop began.             *)
(***************************************************************************)
Move(n) == [kind |-> "Move", value |-> n, body |-> <<>>]
ChangeValue(n) == [kind |-> "ChangeValue", value |-> n, body |-> <<>>]
JumpIf(address) == [kind |-> "JumpIf", value |-> address, body |-> <<>>]

is_countable(token) == token \in {"Increment", "Decrement", "ShiftLeft", "ShiftRight"}

\* `count as i8`
as_i8(count) == ((count + 128) % Byte) - 128

\* Parser::generate_optimized_stmt of brainfuck.rs, for a countable token
flat_generate_optimized_stmt(token, count) ==
    CASE token = "Increment" -> ChangeValue(as_i8(count))
      [] token = "Decrement" -> ChangeValue(-as_i8(count))
      [] token = "ShiftLeft" -> Move(-count)
      [] token = "ShiftRight" -> Move(count)

\* the locals of Parser::parse before the first token
flat_start ==
    [result |-> <<>>, token_count |-> 0, last_token |-> "ShiftLeft",
     loop_stack |-> <<>>, err |-> ""]

\* the StartLoop / EndLoop part of both arms, on the locals st
flat_loop_token(st, token) ==
    CASE token = "StartLoop" ->
           [st EXCEPT !.loop_stack = Append(st.loop_stack, Len(st.result))]
      [] token = "EndLoop" ->
           IF st.loop_stack = <<>>
           THEN [st EXCEPT !.err = ErrNoOpen]
           ELSE LET address == st.loop_stack[Len(st.loop_stack)]
                    popped == [st EXCEPT !.loop_stack =
                                  SubSeq(st.loop_stack, 1, Len(st.loop_stack) - 1)]
                IN  IF address = Len(st.result)
                    THEN popped
                    ELSE [popped EXCEPT !.result = Append(st.result, JumpIf(address))]
      [] OTHER -> st

\* the pending run of countable tokens becomes a statement
flat_flush(st) ==
    IF st.token_count # 0
    THEN [st EXCEPT !.result =
             Append(st.result, flat_generate_optimized_stmt(st.last_token, st.token_count))]
    ELSE st

\* flat_step, but the pending run becomes a statement only after the loop
\* token was handled
flat_step_flushes_after_loop_token(st, token) ==
    IF st.err # "" \/ token = "None"
    THEN st
    ELSE IF token = st.last_token
    THEN flat_loop_token(
             IF is_countable(token)
             THEN [st EXCEPT !.token_count = st.token_count + 1]
             ELSE st,
             token)
    ELSE LET looped == flat_flush(flat_loop_token(st, token)) IN
         IF looped.err # ""
         THEN looped
         ELSE [looped EXCEPT !.token_count = IF is_countable(token) THEN 1 ELSE 0,
                             !.last_token = token]

\* the body of the for loop of Parser::parse for one item of the lexer
flat_step(st, token) ==
    IF st.err # "" \/ token = "None"
    THEN st
    ELSE IF token = st.last_token
    THEN flat_loop_token(
             IF is_countable(token)
             THEN [st EXCEPT !.token_count = st.token_count + 1]
             ELSE st,
             token)
    ELSE LET looped == flat_loop_token(flat_flush(st), token) IN
         IF looped.err # ""
         THEN looped
         ELSE [looped EXCEPT !.token_count = IF is_countable(token) THEN 1 ELSE 0,
                             !.last_token = token]

\* the for loop of Parser::parse over the lexer on the reader r, from the
\* locals st
RECURSIVE flat_for(_, _)
flat_for(st, r) ==
    LET item == next(r) IN
    IF item.ret = <<>>
    THEN st
    ELSE flat_for(flat_step(st, item.ret[1]), item.reader)

\* the locals of Parser::parse after the first n bytes of the source
flat_scan(source, n) == flat_for(flat_start, SubSeq(source, 1, n))

\* Parser::parse of brainfuck.rs: [err, stmts]
flat_parse(source) ==
    LET st == flat_scan(source, Len(source)) IN
    IF st.err # ""
    THEN [err |-> st.err, stmts |-> <<>>]
    ELSE IF st.loop_stack # <<>>
    THEN [err |-> ErrNoClose, stmts |-> <<>>]
    ELSE [err |-> "", stmts |-> flat_flush(st).result]

(***************************************************************************)
(* The execution of a flat sequence.  The repository holds no executor for *)
(* the flat form; this one follows the description of the flat             *)
(* representation: a program counter that starts at 0, goes up by one      *)
(* after a statement that is no jump, is set to the target by a JumpIf on  *)
(* a non-zero cell, and halts at the length of the sequence.  The          *)
(* statements act on the machine of lib.rs as those of run_code do.        *)
(***************************************************************************)
\* the statement of run_code that has the effect of a flat statement
as_unit(statement) ==
    CASE statement.kind = "Move" ->
           IF statement.value < 0
           THEN MoveLeft(-statement.value)
           ELSE MoveRight(statement.value)
      [] statement.kind = "ChangeValue" -> Add(statement.value % Byte)
      [] OTHER -> statement

\* the run of a flat sequence from the program counter on, for at most
\* `fuel` statements: [world, halted]
RECURSIVE flat_run(_, _, _, _)
flat_run(w, stmts, counter, fuel) ==
    IF w.panicked \/ counter = Len(stmts)
    THEN [world |-> w, halted |-> TRUE]
    ELSE IF fuel = 0
    THEN [world |-> w, halted |-> FALSE]
    ELSE LET statement == stmts[counter + 1] IN
         IF statement.kind = "JumpIf"
         THEN IF index_panics(w.machine)
              THEN [world |-> panic(w), halted |-> TRUE]
              ELSE IF check_loop(w.machine)
              THEN flat_run(w, stmts, statement.value, fuel - 1)
              ELSE flat_run(w, stmts, counter + 1, fuel - 1)
         ELSE flat_run(run_statement(w, as_unit(statement)), stmts, counter + 1, fuel - 1)

\* no policy machine is driven while the pipeline or the lexer runs
PolicyMachineUnused ==
    /\ policy_machine = policy_new(1, FALSE, FALSE)
    /\ policy_call = [op |-> "new", shift |-> 0, value |-> 0, from |-> 0, cell |-> 0,
                      panicked |-> FALSE, count |-> 0]
    /\ overflow_checks = FALSE

\* no lexer is stepped on its own while the pipeline runs
LexerUnused ==
    /\ reader = <<>>
    /\ yielded = <<>>
    /\ lexer_call = [op |-> "new", ret |-> <<>>]

World == [machine |-> machine, stdin |-> stdin, stdout |-> stdout, panicked |-> FALSE]

(***************************************************************************)
(* The pipeline.                                                           *)
(***************************************************************************)
Init ==
    /\ src \in Sources
    /\ \E size \in 1..MaxTape : machine = new(size)
    /\ stdin = <<>>
    /\ stdin0 = <<>>
    /\ stdout = <<>>
    /\ pc = "start"
    /\ error = ""
    /\ parsed = <<>>
    /\ statements = <<>>
    /\ previous = <<>>
    /\ max_iterations = 0
    /\ iterations = 0
    /\ optimized = FALSE
    /\ ip = 1
    /\ LexerUnused
    /\ PolicyMachineUnused

\* run as it would be if the statements collected were handed to run_code
\* whether Parser::parse failed or not
RunDespiteParseError ==
    /\ pc = "start"
    /\ LET r == parse(src) IN
       /\ pc' = "run_code"
       /\ error' = r.err
       /\ parsed' = r.stmts
       /\ statements' = r.stmts
    /\ UNCHANGED <<src, machine, stdin, stdin0, stdout, previous, max_iterations,
                   iterations, optimized, ip>>
    /\ UNCHANGED <<lexer_vars, policy_vars>>

\* Interpreter::run up to the call of run_code
Run ==
    /\ pc = "start"
    /\ LET r == parse(src) IN
       IF r.err # ""
       THEN /\ pc' = "error"
            /\ error' = r.err
            /\ UNCHANGED <<parsed, statements>>
       ELSE /\ pc' = "run_code"
            /\ parsed' = r.stmts
            /\ statements' = r.stmts
            /\ UNCHANGED error
    /\ UNCHANGED <<src, machine, stdin, stdin0, stdout, previous, max_iterations,
                   iterations, optimized, ip>>
    /\ UNCHANGED <<lexer_vars, policy_vars>>

\* Interpreter::run_with_optimization up to the call of Optimizer::optimize
RunWithOptimization(budget) ==
    /\ pc = "start"
    /\ LET r == parse(src) IN
       IF r.err # ""
       THEN /\ pc' = "error"
            /\ error' = r.err
            /\ UNCHANGED <<parsed, statements, max_iterations, optimized>>
       ELSE /\ pc' = "optimize"
            /\ parsed' = r.stmts
            /\ statements' = r.stmts
            /\ max_iterations' = budget
            /\ optimized' = TRUE
            /\ UNCHANGED error
    /\ UNCHANGED <<src, machine, stdin, stdin0, stdout, previous, iterations, ip>>
    /\ UNCHANGED <<lexer_vars, policy_vars>>

\* one iteration of the loop of Optimizer::optimize; when the loop ends,
\* yield_back hands the statements to run_code
OptimizePass ==
    /\ pc = "optimize"
    /\ LET new_statements == optimize_once(statements)
           passes == IF max_iterations = 0 THEN iterations ELSE iterations + 1
           stop == \/ pass_unchanged(new_statements, statements)
                   \/ max_iterations # 0 /\ budget_spent(passes, max_iterations)
       IN  /\ previous' = <<statements>>
           /\ statements' = new_statements
           /\ iterations' = passes
           /\ pc' = IF stop THEN "run_code" ELSE "optimize"
    /\ UNCHANGED <<src, machine, stdin, stdin0, stdout, error, parsed, max_iterations,
                   optimized, ip>>
    /\ UNCHANGED <<lexer_vars, policy_vars>>

\* run_code is entered and the terminal is switched to character mode;
\* `input` is what the terminal will supply during the run
RunCodeStart(input) ==
    /\ pc = "run_code"
    /\ pc' = "exec"
    /\ stdin' = input
    /\ stdin0' = input
    /\ ip' = 1
    /\ UNCHANGED <<src, machine, stdout, error, parsed, statements, previous,
                   max_iterations, iterations, optimized>>
    /\ UNCHANGED <<lexer_vars, policy_vars>>

\* one iteration of the for loop of run_code
RunCodeStep ==
    /\ pc = "exec"
    /\ ip <= Len(statements)
    /\ LET w == run_code_step(World, statements[ip]) IN
       /\ machine' = w.machine
       /\ stdin' = w.stdin
       /\ stdout' = w.stdout
       /\ pc' = IF w.panicked THEN "panic" ELSE "exec"
       /\ ip' = IF w.panicked THEN ip ELSE ip + 1
    /\ UNCHANGED <<src, stdin0, error, parsed, statements, previous, max_iterations,
                   iterations, optimized>>
    /\ UNCHANGED <<lexer_vars, policy_vars>>

\* the for loop of run_code is over: run / run_with_optimization return Ok(())
RunCodeEnd ==
    /\ pc = "exec"
    /\ ip > Len(statements)
    /\ pc' = "done"
    /\ UNCHANGED <<src, machine, stdin, stdin0, stdout, error, parsed, statements,
                   previous, max_iterations, iterations, optimized, ip>>
    /\ UNCHANGED <<lexer_vars, policy_vars>>

Next ==
    \/ Run
    \/ \E budget \in 0..MaxIter : RunWithOptimization(budget)
    \/ OptimizePass
    \/ \E input \in InputStreams : RunCodeStart(input)
    \/ RunCodeStep
    \/ RunCodeEnd

Spec == Init /\ [][Next]_vars

\* The pipeline up to the return of Optimizer::optimize: parsing and the
\* passes of the optimizer, without the execution that follows.
OptimizerNext ==
    \/ \E budget \in 0..MaxIter : RunWithOptimization(budget)
    \/ OptimizePass

OptimizerSpec == Init /\ [][OptimizerNext]_vars

\* Interpreter::run alone: parsing and the execution of the parser's
\* statements, without the optimizer.
ExecutionNext ==
    \/ Run
    \/ \E input \in InputStreams : RunCodeStart(input)
    \/ RunCodeStep
    \/ RunCodeEnd

ExecutionSpec == Init /\ [][ExecutionNext]_vars

\* the pipeline before its first step, with no source file chosen yet
PipelineUnused ==
    /\ machine = new(1)
    /\ stdin = <<>>
    /\ stdin0 = <<>>
    /\ stdout = <<>>
    /\ pc = "start"
    /\ error = ""
    /\ parsed = <<>>
    /\ statements = <<>>
    /\ previous = <<>>
    /\ max_iterations = 0
    /\ iterations = 0
    /\ optimized = FALSE
    /\ ip = 1

(***************************************************************************)
(* Parser::parse alone, on sources that also hold bytes the lexer ignores. *)
(***************************************************************************)
ParserInit ==
    /\ src \in CommentedSources
    /\ PipelineUnused
    /\ LexerUnused
    /\ PolicyMachineUnused

\* Interpreter::run stops after Parser::parse when it fails, and hands the
\* statements to run_code when it succeeds
ParserNext == Run

ParserSpec == ParserInit /\ [][ParserNext]_vars

(***************************************************************************)
(* Parser::parse of brainfuck.rs alone, on the same sources.               *)
(***************************************************************************)
\* a call of Parser::parse of brainfuck.rs on a parser over the source
FlatParse ==
    /\ pc = "start"
    /\ LET r == flat_parse(src) IN
       /\ pc' = IF r.err # "" THEN "error" ELSE "flat_parsed"
       /\ error' = r.err
       /\ parsed' = r.stmts
    /\ UNCHANGED <<src, machine, stdin, stdin0, stdout, statements, previous,
                   max_iterations, iterations, optimized, ip>>
    /\ UNCHANGED <<lexer_vars, policy_vars>>

FlatParserNext == FlatParse

FlatParserSpec == ParserInit /\ [][FlatParserNext]_vars

(***************************************************************************)
(* The Lexer alone: eof, next_token and the iterator, called in any order  *)
(* on a lexer built over the source.                                       *)
(***************************************************************************)
LexerInit ==
    /\ src \in CommentedSources
    /\ PipelineUnused
    /\ reader = src
    /\ yielded = <<>>
    /\ lexer_call = [op |-> "new", ret |-> <<>>]
    /\ PolicyMachineUnused

\* a call of Lexer::eof
Eof ==
    /\ lexer_call' = [op |-> "eof", ret |-> <<IF eof(reader) THEN "true" ELSE "false">>]
    /\ UNCHANGED <<reader, yielded>>
    /\ UNCHANGED <<pipeline_vars, policy_vars>>

\* a call of Lexer::next_token; the token of a byte it read is an item yielded
NextToken ==
    /\ LET t == next_token(reader) IN
       /\ lexer_call' = [op |-> "next_token", ret |-> <<t.ret>>]
       /\ reader' = t.reader
       /\ yielded' = IF reader = <<>> THEN yielded ELSE Append(yielded, t.ret)
    /\ UNCHANGED <<pipeline_vars, policy_vars>>

\* a call of next on the iterator of the lexer
IterNext ==
    /\ LET t == next(reader) IN
       /\ lexer_call' = [op |-> "next", ret |-> t.ret]
       /\ reader' = t.reader
       /\ yielded' = yielded \o t.ret
    /\ UNCHANGED <<pipeline_vars, policy_vars>>

LexerNext ==
    \/ Eof
    \/ NextToken
    \/ IterNext

LexerSpec == LexerInit /\ [][LexerNext]_vars

(***************************************************************************)
(* The policy machine alone: move_left and move_right called in any order  *)
(* with any shift, on a machine of any size and flags, in either build.    *)
(***************************************************************************)
\* the shifts given to move_left and move_right
Shifts == 0..MaxShift \cup {UsizeModulus - 1}

PolicyMachineInit ==
    /\ src = <<>>
    /\ PipelineUnused
    /\ LexerUnused
    /\ \E size \in 1..MaxTape, wrap_tape \in BOOLEAN, wrap_cells \in BOOLEAN :
          policy_machine = policy_new(size, wrap_tape, wrap_cells)
    /\ policy_call = [op |-> "new", shift |-> 0, value |-> 0, from |-> 0, cell |-> 0,
                      panicked |-> FALSE, count |-> 0]
    /\ overflow_checks \in BOOLEAN

\* a call of BrainfuckMachine::move_left; a panic ends the program
MoveLeftCall(shift) ==
    /\ ~policy_call.panicked
    /\ policy_call.count < MaxCalls
    /\ LET r == policy_move_left(policy_machine, shift, overflow_checks) IN
       /\ policy_machine' = IF r.panicked
                            THEN policy_machine
                            ELSE [policy_machine EXCEPT !.index = r.value]
       /\ policy_call' = [op |-> "move_left", shift |-> shift, value |-> 0,
                          from |-> policy_machine.index, cell |-> current_cell(policy_machine),
                          panicked |-> r.panicked, count |-> policy_call.count + 1]
    /\ UNCHANGED <<overflow_checks, pipeline_vars, lexer_vars>>

\* a call of BrainfuckMachine::move_right; a panic ends the program
MoveRightCall(shift) ==
    /\ ~policy_call.panicked
    /\ policy_call.count < MaxCalls
    /\ LET r == policy_move_right(policy_machine, shift, overflow_checks) IN
       /\ policy_machine' = IF r.panicked
                            THEN policy_machine
                            ELSE [policy_machine EXCEPT !.index = r.value]
       /\ policy_call' = [op |-> "move_right", shift |-> shift, value |-> 0,
                          from |-> policy_machine.index, cell |-> current_cell(policy_machine),
                          panicked |-> r.panicked, count |-> policy_call.count + 1]
    /\ UNCHANGED <<overflow_checks, pipeline_vars, lexer_vars>>

PolicyMachineNext ==
    \/ \E shift \in Shifts : MoveLeftCall(shift)
    \/ \E shift \in Shifts : MoveRightCall(shift)

PolicyMachineSpec == PolicyMachineInit /\ [][PolicyMachineNext]_vars

(***************************************************************************)
(* The policy machine with all its operations: add, substract, read_char,  *)
(* put_char and check_loop on the cell under the cursor, and the moves by  *)
(* one cell that bring the cursor to another cell.                         *)
(***************************************************************************)
\* the bytes given to add and substract
CellValues == 0..MaxValue \cup (Byte - 1 - MaxValue)..(Byte - 1)

\* the record of a call of `op` with the argument `value` on the cell under the cursor
cell_call(op, value) ==
    [op |-> op, shift |-> 0, value |-> value, from |-> policy_machine.index,
     cell |-> current_cell(policy_machine), panicked |-> index_panics(policy_machine),
     count |-> policy_call.count + 1]

\* a call of BrainfuckMachine::add; tape[index] panics off the tape
AddCall(value) ==
    /\ ~policy_call.panicked
    /\ policy_call.count < MaxCalls
    /\ policy_machine' = IF index_panics(policy_machine)
                         THEN policy_machine
                         ELSE policy_add(policy_machine, value)
    /\ policy_call' = cell_call("add", value)
    /\ UNCHANGED <<overflow_checks, pipeline_vars, lexer_vars>>

\* a call of BrainfuckMachine::substract
SubstractCall(value) ==
    /\ ~policy_call.panicked
    /\ policy_call.count < MaxCalls
    /\ policy_machine' = IF index_panics(policy_machine)
                         THEN policy_machine
                         ELSE policy_substract(policy_machine, value)
    /\ policy_call' = cell_call("substract", value)
    /\ UNCHANGED <<overflow_checks, pipeline_vars, lexer_vars>>

\* a call of BrainfuckMachine::read_char
ReadCharCall(input) ==
    /\ ~policy_call.panicked
    /\ policy_call.count < MaxCalls
    /\ policy_machine' = IF index_panics(policy_machine)
                         THEN policy_machine
                         ELSE policy_read_char(policy_machine, input)
    /\ policy_call' = cell_call("read_char", input)
    /\ UNCHANGED <<overflow_checks, pipeline_vars, lexer_vars>>

\* a call of BrainfuckMachine::put_char, which takes &self
PutCharCall ==
    /\ ~policy_call.panicked
    /\ policy_call.count < MaxCalls
    /\ policy_call' = cell_call("put_char", current_cell(policy_machine))
    /\ UNCHANGED <<policy_machine, overflow_checks, pipeline_vars, lexer_vars>>

\* a call of BrainfuckMachine::check_loop, which takes &self
CheckLoopCall ==
    /\ ~policy_call.panicked
    /\ policy_call.count < MaxCalls
    /\ policy_call' = cell_call("check_loop", current_cell(policy_machine))
    /\ UNCHANGED <<policy_machine, overflow_checks, pipeline_vars, lexer_vars>>

MachineOpsNext ==
    \/ \E value \in CellValues : AddCall(value)
    \/ \E value \in CellValues : SubstractCall(value)
    \/ \E input \in InputBytes : ReadCharCall(input)
    \/ PutCharCall
    \/ CheckLoopCall
    \/ MoveLeftCall(1)
    \/ MoveRightCall(1)

MachineOpsSpec == PolicyMachineInit /\ [][MachineOpsNext]_vars

(***************************************************************************)
(* Notions the properties below are stated with.                           *)
(***************************************************************************)
\* run_code is about to execute a Loop statement with the cursor on a cell
AtLoop ==
    /\ pc = "exec"
    /\ ip <= Len(statements)
    /\ statements[ip].kind = "Loop"
    /\ ~index_panics(machine)

\* a pass of the optimizer has just produced `statements` from previous[1]
\* (neither changes once run_code has started)
AfterPass == previous # <<>> /\ pc \in {"optimize", "run_code"}

\* a Loop with an empty body occurs in stmts, at any depth
RECURSIVE HasEmptyLoop(_)
HasEmptyLoop(stmts) ==
    \E i \in 1..Len(stmts) :
        /\ stmts[i].kind = "Loop"
        /\ (stmts[i].body = <<>> \/ HasEmptyLoop(stmts[i].body))

\* the run of the parser's statements, unoptimized, on a fresh machine of
\* the same size with the same terminal input
UnoptimizedRun ==
    run_code([machine |-> new(machine.size), stdin |-> stdin0, stdout |-> <<>>,
              panicked |-> FALSE],
             parsed)

(***************************************************************************)
(* C1: a Loop statement reached with the current cell zero executes none   *)
(* of its body: the step over it changes neither the tape, the cursor, the *)
(* printed characters nor the pending input.                               *)
(***************************************************************************)
C1_ZeroCellLoopSkipped ==
    [][(AtLoop /\ ~check_loop(machine))
         => (machine' = machine /\ stdout' = stdout /\ stdin' = stdin)]_vars

(***************************************************************************)
(* C2: a Loop statement entered with a non-zero current cell completes     *)
(* only with the cell under the cursor equal to zero.                      *)
(***************************************************************************)
C2_LoopEndsOnZeroCell ==
    [][(AtLoop /\ check_loop(machine) /\ pc' = "exec" /\ ~index_panics(machine'))
         => ~check_loop(machine')]_vars

(***************************************************************************)
(* C3: the run of the optimizer's output prints the same characters and    *)
(* ends with the same tape and cursor as the run of the parser's output,   *)
(* and panics exactly when that run panics.                                *)
(***************************************************************************)
C3_OptimizerPreservesSemantics ==
    (optimized /\ pc \in {"done", "panic"})
        => /\ (pc = "panic") = UnoptimizedRun.panicked
           /\ stdout = UnoptimizedRun.stdout
           /\ (pc = "done" => machine = UnoptimizedRun.machine)

(***************************************************************************)
(* C4: after a pass of the optimizer no Loop with an empty body is left,   *)
(* at any depth.                                                           *)
(***************************************************************************)
C4_NoEmptyLoopAfterPass == AfterPass => ~HasEmptyLoop(statements)

(***************************************************************************)
(* Runs of statements, and what the fusion rules make of them.             *)
(***************************************************************************)
\* s[i..j] is a maximal run of statements that all satisfy InRun
IsMaximalRun(s, i, j, InRun(_)) ==
    /\ 1 <= i /\ i <= j /\ j <= Len(s)
    /\ \A k \in i..j : InRun(s[k])
    /\ (i = 1 \/ ~InRun(s[i - 1]))
    /\ (j = Len(s) \/ ~InRun(s[j + 1]))

IsAdd(st) == st.kind = "Add"

IsIO(st) == st.kind \in {"PutChar", "ReadChar"}

\* the sum of the values of the Add statements s[i..j], unreduced
RECURSIVE AddSum(_, _, _)
AddSum(s, i, j) == IF i > j THEN 0 ELSE s[i].value + AddSum(s, i + 1, j)

\* the net displacement of the moves s[i..j], positive to the right
RECURSIVE NetMove(_, _, _)
NetMove(s, i, j) ==
    IF i > j
    THEN 0
    ELSE (IF s[i].kind = "MoveRight" THEN s[i].value ELSE 0 - s[i].value)
         + NetMove(s, i + 1, j)

FusedAdd(sum) == IF sum % Byte = 0 THEN <<>> ELSE <<Add(sum % Byte)>>

FusedMove(net) ==
    IF net > 0 THEN <<MoveRight(net)>>
    ELSE IF net < 0 THEN <<MoveLeft(0 - net)>>
    ELSE <<>>

\* the loops that occur in stmts, at any depth
RECURSIVE AllLoops(_)
AllLoops(stmts) ==
    UNION {{stmts[i]} \cup AllLoops(stmts[i].body) :
             i \in {k \in 1..Len(stmts) : stmts[k].kind = "Loop"}}

\* the body optimize_loop gives to a loop of body b
LoopBodyPass(b) == optimize_loop(new_loop(b))[1].body

\* in out, the output of the pass Pass on s, s[i..j] is replaced by `by`
\* and what precedes and follows it is rewritten on its own
ReplacedBy(s, out, i, j, by, Pass(_)) ==
    out = Pass(SubSeq(s, 1, i - 1)) \o by \o Pass(SubSeq(s, j + 1, Len(s)))

AddRunsFused(s, out, Pass(_)) ==
    \A i \in 1..Len(s) : \A j \in i..Len(s) :
        IsMaximalRun(s, i, j, IsAdd)
            => ReplacedBy(s, out, i, j, FusedAdd(AddSum(s, i, j)), Pass)

MoveRunsFused(s, out, Pass(_)) ==
    \A i \in 1..Len(s) : \A j \in i..Len(s) :
        IsMaximalRun(s, i, j, is_move)
            => ReplacedBy(s, out, i, j, FusedMove(NetMove(s, i, j)), Pass)

IOIsBarrier(s, out, Pass(_)) ==
    \A i \in 1..Len(s) : IsIO(s[i]) => ReplacedBy(s, out, i, i, <<s[i]>>, Pass)

\* the PutChar and ReadChar statements of stmts in program order, loops included
RECURSIVE IOTrace(_)
IOTrace(stmts) ==
    IF stmts = <<>>
    THEN <<>>
    ELSE LET st == Head(stmts) IN
         (IF IsIO(st) THEN <<st.kind>>
          ELSE IF st.kind = "Loop" THEN IOTrace(st.body)
          ELSE <<>>) \o IOTrace(Tail(stmts))

(***************************************************************************)
(* C5: a pass replaces every maximal run of consecutive Add statements, at *)
(* top level and in every loop body, by the single Add of the run's sum    *)
(* modulo 256, or by nothing when that sum is 0.                           *)
(***************************************************************************)
C5_AddRunsFused ==
    AfterPass =>
        /\ AddRunsFused(previous[1], statements, optimize_once)
        /\ \A l \in AllLoops(previous[1]) :
               AddRunsFused(l.body, LoopBodyPass(l.body), LoopBodyPass)

\* a pass has met a run of two or more Adds whose sum wraps past 255 to a
\* non-zero value, and a run whose sum wraps to 0
C5_Witness ==
    /\ AfterPass
    /\ \E i \in 1..Len(previous[1]) : \E j \in (i + 1)..Len(previous[1]) :
           /\ IsMaximalRun(previous[1], i, j, IsAdd)
           /\ AddSum(previous[1], i, j) > Byte
           /\ Add(AddSum(previous[1], i, j) % Byte) \in {statements[k] : k \in 1..Len(statements)}

(***************************************************************************)
(* C6: a pass replaces every maximal run of consecutive MoveLeft and       *)
(* MoveRight statements, at top level and in every loop body, by the       *)
(* single move of the run's net displacement, or by nothing when it is 0.  *)
(***************************************************************************)
C6_MoveRunsFused ==
    AfterPass =>
        /\ MoveRunsFused(previous[1], statements, optimize_once)
        /\ \A l \in AllLoops(previous[1]) :
               MoveRunsFused(l.body, LoopBodyPass(l.body), LoopBodyPass)

\* a pass has met a run that mixes both directions and has a net
\* displacement other than zero
C6_Witness ==
    /\ AfterPass
    /\ \E i \in 1..Len(previous[1]) : \E j \in (i + 2)..Len(previous[1]) :
           /\ IsMaximalRun(previous[1], i, j, is_move)
           /\ \E a, b \in i..j : previous[1][a].kind # previous[1][b].kind
           /\ NetMove(previous[1], i, j) # 0
           /\ statements # <<>>

(***************************************************************************)
(* C7: a pass keeps every PutChar and ReadChar, in number and order, and   *)
(* fuses nothing across one: what precedes an I/O statement and what       *)
(* follows it are rewritten separately.                                    *)
(***************************************************************************)
C7_IOIsBarrier ==
    AfterPass =>
        /\ IOTrace(statements) = IOTrace(previous[1])
        /\ IOIsBarrier(previous[1], statements, optimize_once)
        /\ \A l \in AllLoops(previous[1]) :
               IOIsBarrier(l.body, LoopBodyPass(l.body), LoopBodyPass)

\* a pass has met an I/O statement between two Adds, or between two moves
C7_Witness ==
    /\ AfterPass
    /\ \E i \in 2..(Len(previous[1]) - 1) :
           /\ IsIO(previous[1][i])
           /\ \/ IsAdd(previous[1][i - 1]) /\ IsAdd(previous[1][i + 1])
              \/ is_move(previous[1][i - 1]) /\ is_move(previous[1][i + 1])
           /\ Len(statements) = Len(previous[1])

(***************************************************************************)
(* Passes repeated.                                                        *)
(***************************************************************************)
\* optimize_once applied n times
RECURSIVE IterOnce(_, _)
IterOnce(stmts, n) == IF n = 0 THEN stmts ELSE IterOnce(optimize_once(stmts), n - 1)

\* the number of passes after which stmts has become a sequence that a
\* further pass leaves as it is
RECURSIVE PassesToFixpoint(_)
PassesToFixpoint(stmts) ==
    IF optimize_once(stmts) = stmts THEN 0 ELSE 1 + PassesToFixpoint(optimize_once(stmts))

\* the number of statements in stmts, those of the loop bodies included
RECURSIVE TreeSize(_)
TreeSize(stmts) ==
    IF stmts = <<>>
    THEN 0
    ELSE 1 + TreeSize(Head(stmts).body) + TreeSize(Tail(stmts))

\* Optimizer::optimize has just returned and run_code has the statements
\* (statements, previous and iterations do not change after that)
OptimizeReturned == optimized /\ pc = "run_code"

(***************************************************************************)
(* C8: with the budget 0 the loop of Optimizer::optimize ends.  Every pass *)
(* that does not end the loop leaves strictly fewer statements in the      *)
(* program tree than it found, so at most TreeSize(parsed) + 1 passes run; *)
(* and the loop is left exactly at the pass whose output equals its input. *)
(***************************************************************************)
C8_OptimizeToFixpointTerminates ==
    [][(pc = "optimize" /\ max_iterations = 0)
         => /\ (pc' = "optimize" => TreeSize(statements') < TreeSize(statements))
            /\ (pc' # "optimize" <=> statements' = statements)]_vars

\* the loop has ended with the budget 0 after passes that changed the statements
C8_Witness ==
    /\ OptimizeReturned
    /\ max_iterations = 0
    /\ statements = previous[1]
    /\ PassesToFixpoint(parsed) >= 2

(***************************************************************************)
(* C9: the result of optimize with the budget 0 is a fixpoint: one more    *)
(* pass, and optimize with any budget, return it unchanged.                *)
(***************************************************************************)
C9_OptimizedIsFixpoint ==
    (OptimizeReturned /\ max_iterations = 0)
        => /\ optimize_once(statements) = statements
           /\ \A budget \in 0..MaxIter : optimize(statements, budget) = statements

\* optimize with the budget 0 has returned statements that differ from the
\* parser's and are not empty
C9_Witness ==
    /\ OptimizeReturned
    /\ max_iterations = 0
    /\ statements # parsed
    /\ statements # <<>>

(***************************************************************************)
(* C10: with a budget N > 0 optimize runs at most N passes, stops at the   *)
(* first pass that changes nothing, and returns optimize_once applied      *)
(* min(N, k) times, k being the number of passes that reach the fixpoint.  *)
(***************************************************************************)
C10_BoundedOptimize ==
    (OptimizeReturned /\ max_iterations > 0)
        => LET k == PassesToFixpoint(parsed) IN
           /\ iterations <= max_iterations
           /\ iterations = Min(max_iterations, k + 1)
           /\ statements = IterOnce(parsed, Min(max_iterations, k))

\* the budget has ended the loop before the fixpoint was reached
C10_Witness ==
    /\ OptimizeReturned
    /\ max_iterations > 0
    /\ iterations = max_iterations
    /\ optimize_once(statements) # statements

(***************************************************************************)
(* Properties of the parser and the lexer.                                 *)
(***************************************************************************)
\* Parser::parse has returned Ok
ParseSucceeded == pc = "run_code" /\ ~optimized

\* Parser::parse has returned Err
ParseFailed == pc = "error"

IsSymbol(byte) == byte \in {"+", "-", "<", ">", ",", ".", "[", "]"}

IsBracket(byte) == byte \in {"[", "]"}

IsNonLoopSymbol(byte) == IsSymbol(byte) /\ ~IsBracket(byte)

\* the statement a non-loop symbol stands for
UnitOf(byte) ==
    CASE byte = "+" -> [kind |-> "Add", value |-> 1, body |-> <<>>]
      [] byte = "-" -> [kind |-> "Add", value |-> 255, body |-> <<>>]
      [] byte = "<" -> [kind |-> "MoveLeft", value |-> 1, body |-> <<>>]
      [] byte = ">" -> [kind |-> "MoveRight", value |-> 1, body |-> <<>>]
      [] byte = "," -> [kind |-> "ReadChar", value |-> 0, body |-> <<>>]
      [] byte = "." -> [kind |-> "PutChar", value |-> 0, body |-> <<>>]

UnitsOf(source) ==
    LET symbols == SelectSeq(source, IsNonLoopSymbol)
    IN  [i \in 1..Len(symbols) |-> UnitOf(symbols[i])]

\* the statements of stmts that are no loops, those of the loop bodies
\* included, in the order of the source
RECURSIVE Leaves(_)
Leaves(stmts) ==
    IF stmts = <<>>
    THEN <<>>
    ELSE (IF Head(stmts).kind = "Loop" THEN Leaves(Head(stmts).body) ELSE <<Head(stmts)>>)
         \o Leaves(Tail(stmts))

\* C11: the nested parser turns every non-loop symbol into its unit
\* statement, one statement per symbol and in source order, at top level and
\* inside loop bodies alike; a source without brackets parses to exactly the
\* unit statements of its recognized symbols
C11_UnitStatementPerSymbol ==
    ParseSucceeded =>
        /\ Leaves(parsed) = UnitsOf(src)
        /\ (SelectSeq(src, IsBracket) = <<>> => parsed = UnitsOf(src))

\* a parse with a unit statement at top level beside a loop whose body holds one
C11_Witness ==
    /\ ParseSucceeded
    /\ \E i, j \in 1..Len(parsed) :
          /\ parsed[i].kind = "Loop"
          /\ Len(parsed[i].body) > 0
          /\ parsed[j].kind # "Loop"

\* C12: the nested parser leaves out every loop whose body is empty, a body
\* of nothing but ignored bytes or empty loops being empty: a successful parse
\* holds no Loop with an empty body at any depth, and a source whose only
\* symbols are brackets parses to no statement at all
C12_NoEmptyLoopParsed ==
    /\ ParseSucceeded =>
          /\ ~HasEmptyLoop(parsed)
          /\ (SelectSeq(src, IsNonLoopSymbol) = <<>> => parsed = <<>>)
    /\ parse(<<"[", "]", "[", "]", "[", "]">>) = [err |-> "", stmts |-> <<>>]
    /\ parse(<<"[", "[", "[", "]", "]", "]">>) = [err |-> "", stmts |-> <<>>]

\* a source of two loops, nested or in a row, has parsed to nothing
C12_Witness ==
    /\ ParseSucceeded
    /\ Len(SelectSeq(src, IsBracket)) = 4
    /\ parsed = <<>>

\* Parser::parse has returned, Ok or Err
ParseReturned == ParseSucceeded \/ ParseFailed

\* the number of '[' less the number of ']' among the first n bytes
Depth(source, n) ==
    Cardinality({i \in 1..n : source[i] = "["}) - Cardinality({i \in 1..n : source[i] = "]"})

\* some prefix of the source holds more ']' than '['
SomePrefixOverclosed(source) == \E n \in 1..Len(source) : Depth(source, n) < 0

\* C13: parse fails with the message "Error: '[' found with no matching ']'."
\* exactly when no prefix of the source holds more ']' than '[' and the
\* whole source holds more '[' than ']'
C13_UnclosedLoopError ==
    ParseReturned =>
        ((ParseFailed /\ error = "Error: '[' found with no matching ']'.")
            <=> (~SomePrefixOverclosed(src) /\ Depth(src, Len(src)) > 0))

\* the parse of a source with a closed loop inside the unclosed one has failed
C13_Witness ==
    /\ ParseFailed
    /\ error = "Error: '[' found with no matching ']'."
    /\ \E i \in 1..Len(src) : src[i] = "]"

\* C14: parse fails with the message "Error: ']' found with no matching '['."
\* exactly when some prefix of the source holds more ']' than '['; a source
\* whose brackets are balanced parses to Ok
C14_UnopenedLoopError ==
    ParseReturned =>
        /\ (ParseFailed /\ error = "Error: ']' found with no matching '['.")
               <=> SomePrefixOverclosed(src)
        /\ (~SomePrefixOverclosed(src) /\ Depth(src, Len(src)) = 0) => ParseSucceeded

\* the parse of a source with a ']' too many after a closed loop has failed
C14_Witness ==
    /\ ParseFailed
    /\ error = "Error: ']' found with no matching '['."
    /\ Len(src) > 0
    /\ src[1] = "["

\* what Parser::parse has returned: the error message and the statements
ParseResult == [err |-> error, stmts |-> parsed]

\* C15: bytes other than the eight symbols have no effect on the parse: the
\* source parses to what the source without these bytes parses to, so two
\* sources that differ only in such bytes have the same statements or the
\* same error
C15_OtherBytesIgnored ==
    ParseReturned => ParseResult = parse(SelectSeq(src, IsSymbol))

\* a source with a byte that is no symbol inside a loop has been parsed
C15_Witness ==
    /\ ParseSucceeded
    /\ \E i \in 2..Len(src) : src[i] = "x" /\ src[1] = "["
    /\ parsed # <<>>

\* the item the lexer yields for a byte: the token of a symbol, None otherwise
ItemOf(byte) ==
    CASE byte = "+" -> "Increment"
      [] byte = "-" -> "Decrement"
      [] byte = "<" -> "ShiftLeft"
      [] byte = ">" -> "ShiftRight"
      [] byte = "," -> "ReadChar"
      [] byte = "." -> "PutChar"
      [] byte = "[" -> "StartLoop"
      [] byte = "]" -> "EndLoop"
      [] OTHER -> "None"

\* the items yielded are those of the first bytes of the source, one for
\* each, and the reader holds the bytes after them
OneItemPerByte ==
    /\ Len(yielded) <= Len(src)
    /\ \A i \in 1..Len(yielded) : yielded[i] = ItemOf(src[i])
    /\ reader = SubSeq(src, Len(yielded) + 1, Len(src))

\* C16: the iterator of the lexer yields one item for each byte of the
\* source, in order, the token of a symbol and None for any other byte, and
\* ends when no byte is left and not before; eof is true exactly when no
\* byte is left and consumes none; next_token at the end returns None and
\* leaves the reader at its end
C16_LexerYieldsOneItemPerByte ==
    [][/\ OneItemPerByte'
       /\ lexer_call'.op = "next" =>
             IF reader = <<>>
             THEN lexer_call'.ret = <<>> /\ reader' = reader /\ yielded' = yielded
             ELSE /\ lexer_call'.ret = <<ItemOf(Head(reader))>>
                  /\ yielded' = Append(yielded, ItemOf(Head(reader)))
                  /\ reader' = Tail(reader)
       /\ lexer_call'.op = "eof" =>
             /\ lexer_call'.ret = <<"true">> <=> reader = <<>>
             /\ lexer_call'.ret = <<"false">> <=> reader # <<>>
             /\ reader' = reader
       /\ (lexer_call'.op = "next_token" /\ reader = <<>>) =>
             /\ lexer_call'.ret = <<"None">>
             /\ reader' = <<>>
      ]_vars

\* the iterator has ended after an item for each byte of a source that holds
\* a symbol and a byte that is none
C16_Witness ==
    /\ lexer_call.op = "next"
    /\ lexer_call.ret = <<>>
    /\ Len(yielded) = Len(src)
    /\ \E i, j \in 1..Len(yielded) : yielded[i] = "None" /\ yielded[j] # "None"

(***************************************************************************)
(* Properties of the cursor of the two machines.                           *)
(***************************************************************************)
\* C17: every move_left and move_right of the strict machine either panics
\* or leaves the index on the tape, 0 <= index < size: no move that returns
\* puts the cursor outside the tape
C17_StrictMoveKeepsIndexOnTape ==
    /\ 0 <= machine.index
    /\ machine.index < machine.size

\* the last call on the policy machine was `op`, on a machine that wraps
\* (wraps = TRUE) or saturates (wraps = FALSE) its index
Moved(op, wraps) == policy_call.op = op /\ policy_machine.wrap_tape = wraps

\* C18: on a wrapping tape of size n > 1, move_left(k) from index 0 returns
\* without an underflow of usize and leaves the index at (n - (k mod n)) mod n,
\* for every shift k
C18_WrapLeftFromZero ==
    (Moved("move_left", TRUE) /\ policy_machine.size > 1 /\ policy_call.from = 0) =>
        /\ ~policy_call.panicked
        /\ policy_machine.index =
              (policy_machine.size - (policy_call.shift % policy_machine.size))
                  % policy_machine.size

\* C19: on a wrapping tape, move_right(k) from an index c < size leaves the
\* index at (c + k) mod size, for every shift k, so the index stays on the
\* tape
C19_WrapRightModuloSize ==
    (Moved("move_right", TRUE) /\ policy_call.from < policy_machine.size) =>
        /\ ~policy_call.panicked
        /\ policy_machine.index = (policy_call.from + policy_call.shift) % policy_machine.size
        /\ policy_machine.index \in 0..(policy_machine.size - 1)

\* C20: on a tape that does not wrap, move_left(k) leaves the index at
\* max(c - k, 0) and move_right(k) at min(c + k, size - 1), for every index c
\* and shift k; no move panics and the index stays on the tape
C20_ClampedMoves ==
    ~policy_machine.wrap_tape =>
        /\ ~policy_call.panicked
        /\ policy_machine.index \in 0..(policy_machine.size - 1)
        /\ policy_call.op = "move_left" =>
              policy_machine.index =
                  IF policy_call.from - policy_call.shift > 0
                  THEN policy_call.from - policy_call.shift
                  ELSE 0
        /\ policy_call.op = "move_right" =>
              policy_machine.index =
                  IF policy_call.from + policy_call.shift < policy_machine.size - 1
                  THEN policy_call.from + policy_call.shift
                  ELSE policy_machine.size - 1

\* a move to the right by the largest usize, from a cell after cell 0 of a
\* tape that does not wrap, has stopped at the last cell
C20_Witness ==
    /\ Moved("move_right", FALSE)
    /\ policy_call.shift = UsizeModulus - 1
    /\ policy_call.from > 0
    /\ policy_machine.index = policy_machine.size - 1

(***************************************************************************)
(* Properties of the cells of the two machines.                            *)
(***************************************************************************)
\* the last call on the policy machine was `op` and did not panic, on a
\* machine that wraps (wraps = TRUE) or saturates (wraps = FALSE) its cells
CellCalled(op, wraps) ==
    /\ policy_call.op = op
    /\ ~policy_call.panicked
    /\ policy_machine.wrap_cells = wraps

\* the machine of lib.rs with the size, cursor and tape of the policy machine
StrictImage == [size |-> policy_machine.size, index |-> policy_machine.index,
                tape |-> policy_machine.tape]

\* C21: with wrapping cells add(v) leaves (cell + v) mod 256 and substract(v)
\* leaves (cell - v) mod 256 in the cell under the cursor, and add(v)
\* followed by substract(v) leaves the value the cell had before, for the
\* policy machine with wrap_cells and for the machine of lib.rs
C21_WrappingRoundTrip ==
    [][/\ CellCalled("add", TRUE)' =>
             current_cell(policy_machine)' = (policy_call'.cell + policy_call'.value) % 256
       /\ CellCalled("substract", TRUE)' =>
             current_cell(policy_machine)' = (policy_call'.cell - policy_call'.value) % 256
       /\ (/\ CellCalled("add", TRUE)
           /\ CellCalled("substract", TRUE)'
           /\ policy_call'.value = policy_call.value) =>
             current_cell(policy_machine)' = policy_call.cell
       /\ ~index_panics(StrictImage) =>
             \A v \in CellValues :
                 /\ current_cell(add(StrictImage, v)) = (current_cell(StrictImage) + v) % 256
                 /\ current_cell(substract(StrictImage, v))
                        = (current_cell(StrictImage) - v) % 256
                 /\ substract(add(StrictImage, v), v) = StrictImage
      ]_vars

\* substract(255) has brought a cell back from 0 to 1 on a machine that
\* wraps its cells: the add(255) before it had wrapped from 1 to 0
C21_Witness ==
    /\ CellCalled("substract", TRUE)
    /\ policy_call.value = 255
    /\ policy_call.cell = 0
    /\ current_cell(policy_machine) = 1
    /\ policy_call.count = 3

\* C22: with saturating cells add(v) leaves min(cell + v, 255) and
\* substract(v) leaves max(cell - v, 0) in the cell under the cursor, and
\* add(v) followed by substract(v) leaves the value the cell had before
\* exactly when cell + v <= 255
C22_SaturatingCells ==
    [][/\ CellCalled("add", FALSE)' =>
             current_cell(policy_machine)' =
                 IF policy_call'.cell + policy_call'.value < 255
                 THEN policy_call'.cell + policy_call'.value
                 ELSE 255
       /\ CellCalled("substract", FALSE)' =>
             current_cell(policy_machine)' =
                 IF policy_call'.cell - policy_call'.value > 0
                 THEN policy_call'.cell - policy_call'.value
                 ELSE 0
       /\ (/\ CellCalled("add", FALSE)
           /\ CellCalled("substract", FALSE)'
           /\ policy_call'.value = policy_call.value) =>
             (current_cell(policy_machine)' = policy_call.cell
                 <=> policy_call.cell + policy_call.value <= 255)
      ]_vars

\* substract(255) has brought a cell from 255 to 0 on a machine that
\* saturates its cells, after two calls that had made it 255
C22_Witness ==
    /\ CellCalled("substract", FALSE)
    /\ policy_call.value = 255
    /\ policy_call.cell = 255
    /\ current_cell(policy_machine) = 0
    /\ policy_call.count = 3

(***************************************************************************)
(* Properties of the run of a program.                                     *)
(***************************************************************************)
\* run_code is about to execute the statement at `ip`, of the given kind
AtStatement(kind) ==
    /\ pc = "exec"
    /\ ip <= Len(statements)
    /\ statements[ip].kind = kind

\* the source is n times '+' and then '.'
PlusesThenDot ==
    /\ Len(src) > 0
    /\ src[Len(src)] = "."
    /\ \A i \in 1..(Len(src) - 1) : src[i] = "+"

\* a is the beginning of b
IsPrefix(a, b) == Len(a) <= Len(b) /\ SubSeq(b, 1, Len(a)) = a

\* n statements Add(1)
Increments(n) == [i \in 1..n |-> [kind |-> "Add", value |-> 1, body |-> <<>>]]

C24_InputExhaustedIsFatal ==
    [][/\ (AtStatement("ReadChar") /\ stdin = <<>>) =>
             /\ pc' = "panic"
             /\ machine' = machine
             /\ stdout' = stdout
             /\ ip' = ip
       /\ (/\ AtStatement("Loop")
           /\ statements[ip].body # <<>>
           /\ statements[ip].body[1].kind = "ReadChar"
           /\ stdin = <<>>) =>
             /\ pc' = "panic"
             /\ machine' = machine
             /\ stdout' = stdout
       /\ pc # "panic"
      ]_vars

\* the run has aborted at a ReadChar with no character left, after the
\* statements before it had made the cell under the cursor non-zero
C24_Witness ==
    /\ pc = "panic"
    /\ statements[ip].kind = "ReadChar"
    /\ stdin = <<>>
    /\ ~index_panics(machine)
    /\ machine.tape[machine.index] # 0

\* the brackets of the source do not match
Unbalanced(source) == SomePrefixOverclosed(source) \/ Depth(source, Len(source)) # 0

\* C25: when the brackets of the source do not match, run and
\* run_with_optimization return the error of the parser and nothing else
\* happens: the tape is all zero, the cursor is at 0, no character is
\* emitted or read, no statement is handed on and the optimizer makes no pass
C25_ParseErrorAbortsPipeline ==
    /\ (Unbalanced(src) /\ pc # "start") => pc = "error"
    /\ pc = "error" =>
          /\ error \in {"Error: '[' found with no matching ']'.",
                         "Error: ']' found with no matching '['."}
          /\ machine = new(machine.size)
          /\ stdout = <<>>
          /\ stdin = <<>>
          /\ stdin0 = <<>>
          /\ statements = <<>>
          /\ previous = <<>>
          /\ iterations = 0
          /\ ~optimized
          /\ ip = 1

\* the parse of a source with a '.' before the bracket that has no match
\* has failed
C25_Witness ==
    /\ pc = "error"
    /\ Len(src) > 1
    /\ src[1] = "."

\* Parser::parse of brainfuck.rs has returned Ok
FlatParseSucceeded == pc = "flat_parsed"

\* the positions of the JumpIf statements of a flat sequence, counted from 1
JumpIfs(stmts) == {j \in 1..Len(stmts) : stmts[j].kind = "JumpIf"}

\* the place of the '[' that the ']' at place q of the source closes
MatchingOpen(source, q) ==
    CHOOSE p \in 1..q :
        /\ source[p] = "["
        /\ Depth(source, p - 1) = Depth(source, q)
        /\ \A i \in (p + 1)..(q - 1) :
              ~(source[i] = "[" /\ Depth(source, i - 1) = Depth(source, q))

\* the ']' at place q of the source appended the statement at place j
AppendedAt(source, q, j) ==
    /\ source[q] = "]"
    /\ Len(flat_scan(source, q).result) = j
    /\ Len(flat_scan(source, q - 1).result) < j

FlatRun ==
    flat_run([machine |-> new(machine.size), stdin |-> stdin0, stdout |-> <<>>,
              panicked |-> FALSE],
             flat_parse(src).stmts, 0, MaxFuel)

\* C26: when run_code has completed the nested form of a source, the run of
\* the flat form of the same source with the same tape size and input has
\* emitted the same characters and ended with the same tape and cursor (a
\* flat run that is still going after MaxFuel statements is only held to
\* what it has emitted so far)
C26_FlatAndNestedAgree ==
    pc = "done" =>
        IF FlatRun.halted
        THEN /\ ~FlatRun.world.panicked
             /\ FlatRun.world.stdout = stdout
             /\ FlatRun.world.machine = machine
        ELSE IsPrefix(FlatRun.world.stdout, stdout)

IsLoop(statement) == statement.kind = "Loop"

\* the loops among the statements of a sequence, in order
LoopsOf(stmts) == SelectSeq(stmts, IsLoop)

\* the sequences the optimizer meets: what the parser returned, what the
\* optimizer holds, and the bodies of their loops at every depth
SequencesMet ==
    {parsed, statements} \cup {l.body : l \in AllLoops(parsed) \cup AllLoops(statements)}

\* C28: for every statement sequence b, optimize_loop gives the loop of
\* body b a loop whose body is what optimize_once makes of b as a top-level
\* sequence; so after a pass the loops the optimizer holds are, in order,
\* the loops it held before with optimize_once applied to their bodies
C28_LoopBodyPassIsOptimizeOnce ==
    /\ \A b \in SequencesMet : optimize_loop(new_loop(b)) = <<new_loop(optimize_once(b))>>
    /\ previous # <<>> =>
          LoopsOf(statements) =
              [i \in 1..Len(LoopsOf(previous[1])) |->
                   new_loop(optimize_once(LoopsOf(previous[1])[i].body))]

\* a pass has rewritten the body of a loop
C28_Witness ==
    /\ previous # <<>>
    /\ \E i \in 1..Len(LoopsOf(statements)) :
          /\ LoopsOf(statements)[i].body # <<>>
          /\ LoopsOf(statements)[i] # LoopsOf(previous[1])[i]

\* the machine `after` differs from `before` at most in the cell under the cursor
OnlyCellChanged(before, after) ==
    /\ [after EXCEPT !.tape = before.tape] = before
    /\ DOMAIN after.tape = DOMAIN before.tape
    /\ \A i \in DOMAIN before.tape \ {before.index} : after.tape[i] = before.tape[i]

\* the machine `after` differs from `before` at most in the cursor
OnlyCursorChanged(before, after) == [after EXCEPT !.index = before.index] = before

\* the tape has as many cells as the size says
TapeFitsSize(m) == DOMAIN m.tape = 0..(m.size - 1)

\* C29: add, substract and read_char change nothing but the cell under the
\* cursor, move_left and move_right change nothing but the cursor, put_char
\* and check_loop change nothing, and the tape always has `size` cells; for
\* the policy machine call by call, and for the operations of the machine
\* of lib.rs on a machine of the same size, cursor and tape
C29_OperationsFrame ==
    [][/\ TapeFitsSize(policy_machine')
       /\ policy_call'.op \in {"add", "substract", "read_char"} =>
             OnlyCellChanged(policy_machine, policy_machine')
       /\ policy_call'.op \in {"move_left", "move_right"} =>
             OnlyCursorChanged(policy_machine, policy_machine')
       /\ policy_call'.op \in {"put_char", "check_loop"} =>
             policy_machine' = policy_machine
       /\ TapeFitsSize(new(policy_machine.size))
       /\ ~index_panics(StrictImage) =>
             /\ \A v \in CellValues :
                   /\ OnlyCellChanged(StrictImage, add(StrictImage, v))
                   /\ OnlyCellChanged(StrictImage, substract(StrictImage, v))
             /\ \A input \in InputBytes :
                   OnlyCellChanged(StrictImage, read_char(StrictImage, input))
       /\ \A shift \in 1..MaxShift :
             /\ ~move_left_panics(StrictImage, shift) =>
                   OnlyCursorChanged(StrictImage, move_left(StrictImage, shift))
             /\ ~move_right_panics(StrictImage, shift) =>
                   OnlyCursorChanged(StrictImage, move_right(StrictImage, shift))
      ]_vars

\* read_char has written the second cell of a tape of two cells, whose
\* first cell holds another value
C29_Witness ==
    /\ policy_call.op = "read_char"
    /\ ~policy_call.panicked
    /\ policy_machine.size = 2
    /\ policy_machine.index = 1
    /\ policy_machine.tape[1] # policy_call.cell
    /\ policy_machine.tape[0] # policy_machine.tape[1]

\* the number of statements of the given kind in stmts, those of the loop
\* bodies included
RECURSIVE TreeCount(_, _)
TreeCount(kind, stmts) ==
    IF stmts = <<>>
    THEN 0
    ELSE (IF Head(stmts).kind = kind THEN 1 ELSE 0)
             + TreeCount(kind, Head(stmts).body) + TreeCount(kind, Tail(stmts))

\* the statements run_code has taken so far
Taken == SubSeq(statements, 1, IF pc = "panic" THEN ip ELSE ip - 1)

=============================================================================
